---- MODULE Spec2Model ----
(***************************************************************************)
(* A model of src/common/loki.cpp: loki::round, loki::exp2 and             *)
(* loki::hex64_to_base32z with its helper base32z_encode.                  *)
(*                                                                         *)
(* Characters of the input string are ASCII codes (the decode lambda       *)
(* compares and subtracts them), output symbols are one-character strings, *)
(* and the zero byte of the output buffer is the string NUL.  The int      *)
(* accumulator of the encoder is the set of the positions of its 1 bits.   *)
(***************************************************************************)
EXTENDS Integers, Sequences, FiniteSets, TLC

VARIABLES
    pc,      \* position of the call in progress
    src,     \* hex64_to_base32z: the argument, a sequence of ASCII codes
    bin,     \* hex64_to_base32z: std::vector<uint8_t> bin
    stack,   \* hex64_to_base32z: char buf[64], base32z_encode's stack
    ret,     \* base32z_encode: size_t ret
    pos,     \* base32z_encode: size_t pos
    bits,    \* base32z_encode: int bits
    tmp,     \* base32z_encode: int tmp, as the set of its 1 bits
    dest,    \* what base32z_encode returned: "none", "null" or "buf"
    result,  \* hex64_to_base32z: std::string result
    x,       \* round / exp2: the argument
    res,     \* round / exp2: the value returned
    res2,    \* round applied to the value round returned
    ex       \* exp2: its locals nm, z, exp_y, n, m, ret and the loop counter i

vars == <<pc, src, bin, stack, ret, pos, bits, tmp, dest, result, x, res, res2, ex>>

encVars == <<src, bin, stack, ret, pos, bits, tmp, dest, result>>
mathVars == <<x, res, res2, ex>>

----------------------------------------------------------------------------
(* Bit sets: a non-negative integer (or dyadic rational) is the set of the *)
(* exponents of the powers of two that sum to it.                          *)

Max(S) == CHOOSE m \in S : \A o \in S : o <= m
Min(S) == CHOOSE m \in S : \A o \in S : m <= o

\* the bits of a small non-negative integer n, bit 0 at exponent off
BitsOf(n, off) == {i + off : i \in {j \in 0..30 : (n \div 2^j) % 2 = 1}}

Shift(S, k) == {b + k : b \in S}

RECURSIVE SetSum(_)
SetSum(S) == IF S = {} THEN 0
             ELSE LET b == Max(S) IN 2^b + SetSum(S \ {b})

----------------------------------------------------------------------------
(* hex64_to_base32z and base32z_encode                                     *)

NUL == "NUL"

zbase32_alpha == <<"y", "b", "n", "d", "r", "f", "g", "8",
                   "e", "j", "k", "m", "c", "p", "q", "x",
                   "o", "t", "1", "u", "w", "i", "s", "z",
                   "a", "3", "4", "5", "h", "7", "6", "9">>

\* assert(src.size() <= 64)
MaxSrcLen == 64
\* char buf[64]: sizeof(stack)
StackSize == 64
\* width of int
IntBits == 32

\* ASCII codes drawn for the input: '/' '0' '9' ':' 'A' 'F' 'G' 'a' 'f' 'g'
Chars == {47, 48, 57, 58, 65, 70, 71, 97, 102, 103}
\* characters at the odd positions of an input: '0' 'F' 'g'
OddChars == {48, 70, 103}

\* an input of length n: a at the odd positions, b at the even ones
Pattern(n, a, b) == [i \in 1..n |-> IF i % 2 = 1 THEN a ELSE b]

Inputs == {Pattern(n, a, b) : n \in 0..MaxSrcLen, a \in OddChars, b \in Chars}

\* what an out-of-bounds read of one byte may yield
GarbageBytes == {0, 90, 255}
\* how many bytes past the end of buf a read may run before it meets a zero
MaxOverread == 2
GarbageChar == "?"

RECURSIVE Garbage(_)
Garbage(n) == IF n = 0 THEN <<>> ELSE <<GarbageChar>> \o Garbage(n - 1)

\* the lambda with the letters 'A'-'F' taken for their offset from 'A'
HexLambdaNoTen(ch) ==
    IF ch >= 48 /\ ch <= 57 THEN ch - 48
    ELSE IF ch >= 65 /\ ch <= 70 THEN ch - 65
    ELSE IF ch >= 97 /\ ch <= 102 THEN ch - 87
    ELSE 0

\* the lambda of std::transform
HexLambda(ch) ==
    IF ch >= 48 /\ ch <= 57 THEN ch - 48
    ELSE IF ch >= 65 /\ ch <= 70 THEN ch - 55
    ELSE IF ch >= 97 /\ ch <= 102 THEN ch - 87
    ELSE 0

Transform(s) == [i \in 1..Len(s) |-> HexLambda(s[i])]

\* tmp <<= k on a 32-bit int: the bits shifted out are dropped
ShiftLeft(t, k) == {b \in Shift(t, k) : b < IntBits}

\* (tmp >> bits) & 0x1F
Ind(t, b) == SetSum({i \in 0..4 : (i + b) \in t})

\* the string a char pointer denotes: the bytes before the first zero byte
RECURSIVE CStr(_)
CStr(s) == IF s = <<>> \/ Head(s) = NUL THEN <<>>
           ELSE <<Head(s)>> \o CStr(Tail(s))

InitEnc ==
    /\ bin = <<>>
    /\ stack = <<>>
    /\ ret = 0
    /\ pos = 0
    /\ bits = 0
    /\ tmp = {}
    /\ dest = "none"
    /\ result = <<>>

\* std::transform into bin; char buf[64] = {0}; std::string result
Decode ==
    /\ pc = "decode"
    /\ bin' = Transform(src)
    /\ stack' = [i \in 1..StackSize |-> NUL]
    /\ result' = <<>>
    /\ pc' = "entry"
    /\ UNCHANGED <<src, ret, pos, bits, tmp, dest, mathVars>>

\* size_t ret = 0, pos = 1; int bits = 8, tmp = value[0]; len = value.size()
\* value[0] of an empty vector is an out-of-bounds read: any byte, or a fault
EncodeEntry ==
    /\ pc = "entry"
    /\ ret' = 0
    /\ pos' = 1
    /\ bits' = 8
    /\ IF Len(bin) > 0
       THEN tmp' = BitsOf(bin[1], 0) /\ pc' = "loop"
       ELSE \/ \E g \in GarbageBytes : tmp' = BitsOf(g, 0) /\ pc' = "loop"
            \/ tmp' = {} /\ pc' = "crashed"
    /\ UNCHANGED <<src, bin, stack, dest, result, mathVars>>

\* the loop condition without the test of ret against the size of the stack
LoopCondNoCapacity == bits > 0 \/ pos < Len(bin)

LoopCond == ret < StackSize /\ (bits > 0 \/ pos < Len(bin))

\* one iteration of the while loop
EncodeStep ==
    /\ pc = "loop"
    /\ LoopCond
    /\ LET refill == bits < 5
           more == pos < Len(bin)
           tmp1 == IF ~refill THEN tmp
                   ELSE IF more THEN ShiftLeft(tmp, 8) \cup BitsOf(bin[pos + 1] % 256, 0)
                   ELSE ShiftLeft(tmp, 5 - bits)
           bits1 == IF ~refill THEN bits
                    ELSE IF more THEN bits + 8
                    ELSE 5
           bits2 == bits1 - 5
           ind == Ind(tmp1, bits2)
       IN /\ tmp' = tmp1
          /\ pos' = IF refill /\ more THEN pos + 1 ELSE pos
          /\ bits' = bits2
          /\ IF ret < StackSize
             THEN /\ stack' = [stack EXCEPT ![ret + 1] = zbase32_alpha[ind + 1]]
                  /\ ret' = ret + 1
                  /\ dest' = dest
                  /\ pc' = "loop"
             ELSE /\ dest' = "null"
                  /\ pc' = "returned"
                  /\ UNCHANGED <<stack, ret>>
    /\ UNCHANGED <<src, bin, result, mathVars>>

\* the loop condition fails: return &stack[0]
EncodeReturn ==
    /\ pc = "loop"
    /\ ~LoopCond
    /\ dest' = "buf"
    /\ pc' = "returned"
    /\ UNCHANGED <<src, bin, stack, ret, pos, bits, tmp, result, mathVars>>

\* if (char const *dest = base32z_encode(bin, buf)) result = dest; return result
\* std::string reads up to the first zero byte; a buf without one is read past
\* its end: some bytes that follow it, or a fault
AssignResult ==
    /\ pc = "returned"
    /\ IF dest = "null"
       THEN result' = result /\ pc' = "done"
       ELSE IF \E i \in 1..StackSize : stack[i] = NUL
       THEN result' = CStr(stack) /\ pc' = "done"
       ELSE \/ \E n \in 0..MaxOverread :
                 result' = stack \o Garbage(n) /\ pc' = "done"
            \/ result' = result /\ pc' = "crashed"
    /\ UNCHANGED <<src, bin, stack, ret, pos, bits, tmp, dest, mathVars>>

----------------------------------------------------------------------------
(* IEEE-754 binary64 arithmetic, round to nearest, ties to even.  A double *)
(* is [sg, inf, m]: the sign bit, whether it is an infinity, and the       *)
(* magnitude as the set of the exponents of its 1 bits (at most            *)
(* DBL_MANT_DIG consecutive positions, none below the least subnormal).    *)
(* NaN is not modelled: the code sets it aside and no operation on the     *)
(* inputs drawn here produces one.                                         *)

\* <cfloat>
DBL_MANT_DIG == 53
DBL_MAX_EXP == 1024
DBL_MIN_EXP == -1021

Dbl(sg, m) == [sg |-> sg, inf |-> FALSE, m |-> m]
Inf(sg) == [sg |-> sg, inf |-> TRUE, m |-> {}]
\* the double of a small integer
FromInt(n) == IF n < 0 THEN Dbl(1, BitsOf(-n, 0)) ELSE Dbl(0, BitsOf(n, 0))
\* a literal: the double (hi * 2^26 + lo) * 2^e nearest to the decimal in the source
Lit(sg, hi, lo, e) == Dbl(sg, BitsOf(hi, e + 26) \cup BitsOf(lo, e))

IsZero(a) == ~a.inf /\ a.m = {}

\* exact arithmetic on magnitudes
RECURSIVE AddS(_, _)
AddS(A, B) == IF B = {} THEN A
              ELSE AddS((A \ B) \cup (B \ A), Shift(A \cap B, 1))

\* A - B for A >= B
RECURSIVE SubS(_, _)
SubS(A, B) == IF B = {} THEN A
              ELSE SubS((A \ B) \cup (B \ A), Shift(B \ A, 1))

LessS(A, B) == A # B /\ Max((A \ B) \cup (B \ A)) \in B

RECURSIVE MulS(_, _)
MulS(A, B) == IF B = {} THEN {}
              ELSE LET b == Max(B) IN AddS(Shift(A, b), MulS(A, B \ {b}))

\* long division: quotient bits p down to L, and a sticky bit at L - 1
RECURSIVE DivLoop(_, _, _, _, _)
DivLoop(R, B, p, L, Q) ==
    IF p < L THEN (IF R = {} THEN Q ELSE Q \cup {L - 1})
    ELSE LET D == Shift(B, p)
         IN IF LessS(R, D) THEN DivLoop(R, B, p - 1, L, Q)
            ELSE DivLoop(SubS(R, D), B, p - 1, L, Q \cup {p})

DivS(A, B) == LET q0 == Max(A) - Max(B)
              IN DivLoop(A, B, q0, q0 - DBL_MANT_DIG - 2, {})

\* the magnitude rounded to DBL_MANT_DIG bits, none below the least subnormal
RoundMag(S) ==
    IF S = {} THEN {}
    ELSE LET top == Max(S)
             sub == DBL_MIN_EXP - DBL_MANT_DIG
             lsb == IF top - (DBL_MANT_DIG - 1) > sub
                    THEN top - (DBL_MANT_DIG - 1) ELSE sub
             keep == {b \in S : b >= lsb}
             rest == {b \in S : b < lsb}
             up == (lsb - 1) \in rest /\ (rest # {lsb - 1} \/ lsb \in keep)
         IN IF up THEN AddS(keep, {lsb}) ELSE keep

Pack(sg, S) == LET r == RoundMag(S)
               IN IF r # {} /\ Max(r) >= DBL_MAX_EXP THEN Inf(sg) ELSE Dbl(sg, r)

FNeg(a) == [a EXCEPT !.sg = 1 - a.sg]

\* the smaller operand B aligned to the larger A: when it lies wholly below
\* the guard bits of A it only makes the sum inexact, as one sticky bit does
Align(A, B) ==
    IF A # {} /\ B # {} /\ Max(A) - Max(B) > DBL_MANT_DIG + 2
    THEN {Max(A) - DBL_MANT_DIG - 3}
    ELSE B

FAdd(a, b) ==
    IF a.inf THEN a
    ELSE IF b.inf THEN b
    ELSE IF a.sg = b.sg
    THEN Pack(a.sg, AddS(Align(b.m, a.m), Align(a.m, b.m)))
    ELSE IF a.m = b.m THEN Dbl(0, {})
    ELSE IF LessS(b.m, a.m) THEN Pack(a.sg, SubS(a.m, Align(a.m, b.m)))
    ELSE Pack(b.sg, SubS(b.m, Align(b.m, a.m)))

FSub(a, b) == FAdd(a, FNeg(b))

FMul(a, b) ==
    LET sg == (a.sg + b.sg) % 2
    IN IF a.inf \/ b.inf THEN Inf(sg) ELSE Pack(sg, MulS(a.m, b.m))

FDiv(a, b) ==
    LET sg == (a.sg + b.sg) % 2
    IN IF a.inf THEN Inf(sg)
       ELSE IF b.inf \/ a.m = {} THEN Dbl(sg, {})
       ELSE IF b.m = {} THEN Inf(sg)
       ELSE Pack(sg, DivS(a.m, b.m))

MagLess(a, b) == IF a.inf THEN FALSE
                 ELSE IF b.inf THEN TRUE
                 ELSE LessS(a.m, b.m)

\* a < b
FLess(a, b) ==
    IF a.sg = 0 /\ b.sg = 0 THEN MagLess(a, b)
    ELSE IF a.sg = 1 /\ b.sg = 1 THEN MagLess(b, a)
    ELSE IF a.sg = 1 THEN ~(IsZero(a) /\ IsZero(b))
    ELSE FALSE

\* (int) d for a finite d within the range of int: truncation toward zero
ToInt(a) == LET v == SetSum({b \in a.m : b >= 0})
            IN IF a.sg = 1 THEN -v ELSE v

DZero == Dbl(0, {})
DHalf == Dbl(0, {-1})
DOne == Dbl(0, {0})
DTwo == Dbl(0, {1})
MINUS_ZERO == Dbl(1, {})

----------------------------------------------------------------------------
(* loki::round                                                             *)

\* 2^(DBL_MANT_DIG-1) as the product of five powers of two
TWO_MANT_DIG ==
    FMul(FMul(FMul(FMul(Dbl(0, {(DBL_MANT_DIG - 1) \div 5}),
                        Dbl(0, {(DBL_MANT_DIG - 1 + 1) \div 5})),
                   Dbl(0, {(DBL_MANT_DIG - 1 + 2) \div 5})),
              Dbl(0, {(DBL_MANT_DIG - 1 + 3) \div 5})),
         Dbl(0, {(DBL_MANT_DIG - 1 + 4) \div 5}))

\* the x > 0 branch without the step that enforces rounding down
RoundPositiveNoFix(z) ==
    IF FLess(z, DHalf) THEN DZero
    ELSE IF FLess(z, TWO_MANT_DIG)
    THEN LET y == FAdd(z, DHalf)
             z1 == FAdd(y, TWO_MANT_DIG)
         IN FSub(z1, TWO_MANT_DIG)
    ELSE z

\* the x > 0 branch without the test against 2^(DBL_MANT_DIG-1)
RoundPositiveNoLimit(z) ==
    IF FLess(z, DHalf) THEN DZero
    ELSE LET y == FAdd(z, DHalf)
             z1 == FAdd(y, TWO_MANT_DIG)
             z2 == FSub(z1, TWO_MANT_DIG)
         IN IF FLess(y, z2) THEN FSub(z2, DOne) ELSE z2

\* the x > 0 branch; every assignment to the volatile y, z rounds to double
RoundPositive(z) ==
    IF FLess(z, DHalf) THEN DZero
    ELSE IF FLess(z, TWO_MANT_DIG)
    THEN LET y == FAdd(z, DHalf)
             z1 == FAdd(y, TWO_MANT_DIG)
             z2 == FSub(z1, TWO_MANT_DIG)
         IN IF FLess(y, z2) THEN FSub(z2, DOne) ELSE z2
    ELSE z

\* the x < 0 branch
RoundNegative(z) ==
    IF FLess(FNeg(DHalf), z) THEN MINUS_ZERO
    ELSE IF FLess(FNeg(TWO_MANT_DIG), z)
    THEN LET y == FSub(z, DHalf)
             z1 == FSub(y, TWO_MANT_DIG)
             z2 == FAdd(z1, TWO_MANT_DIG)
         IN IF FLess(z2, y) THEN FAdd(z2, DOne) ELSE z2
    ELSE z

Round(v) ==
    IF FLess(DZero, v) THEN RoundPositive(v)
    ELSE IF FLess(v, DZero) THEN RoundNegative(v)
    ELSE v

----------------------------------------------------------------------------
(* loki::exp2                                                              *)

LOG2_BY_256 == Lit(0, 93032639, 49953263, -61)
TANH_COEFF_1 == DOne
TANH_COEFF_3 == Lit(1, 89478485, 22369621, -54)
TANH_COEFF_5 == Lit(0, 71582788, 17895697, -55)
HUGE_VAL == Inf(0)

\* exp_table[i] = exp((i - 128) * log(2)/256), each literal as <<hi, lo, e>>
exp_table == <<
    <<94906265, 41892813, -53>>,
    <<47581791, 20614047, -52>>,
    <<95421597, 17554111, -53>>,
    <<95680311, 30701125, -53>>,
    <<95939727, 6625839, -53>>,
    <<96199846, 5847781, -53>>,
    <<24115167, 39085345, -51>>,
    <<96722201, 49557127, -53>>,
    <<24246110, 37427165, -51>>,
    <<48623696, 58026053, -52>>,
    <<24377764, 36266077, -51>>,
    <<97775437, 30919677, -53>>,
    <<98040533, 37906377, -53>>,
    <<98306348, 28012041, -53>>,
    <<98572883, 64904511, -53>>,
    <<49420071, 5639803, -52>>,
    <<99108124, 65732999, -53>>,
    <<99376834, 24563675, -53>>,
    <<49823136, 9986201, -52>>,
    <<6244777, 36698223, -49>>,
    <<50093670, 57124657, -52>>,
    <<100458977, 9553041, -53>>,
    <<50365674, 35589385, -52>>,
    <<101004459, 30475993, -53>>,
    <<101278310, 21810707, -53>>,
    <<101552903, 45695479, -53>>,
    <<101828241, 35899309, -53>>,
    <<102104325, 60775201, -53>>,
    <<102381158, 54825709, -53>>,
    <<51329371, 10015259, -52>>,
    <<102937078, 25847449, -53>>,
    <<103216169, 7886863, -53>>,
    <<103496016, 36348123, -53>>,
    <<12972077, 56279791, -50>>,
    <<26014497, 28135715, -51>>,
    <<104340119, 34105049, -53>>,
    <<52311507, 9091995, -52>>,
    <<52453338, 1316421, -52>>,
    <<52595553, 29949923, -52>>,
    <<52738154, 30742513, -52>>,
    <<105762284, 13485541, -53>>,
    <<106049034, 56596709, -53>>,
    <<106336562, 63459855, -53>>,
    <<106624870, 41316531, -53>>,
    <<6682122, 33416421, -49>>,
    <<53601916, 37556561, -52>>,
    <<53747246, 6620125, -52>>,
    <<107785939, 22281741, -53>>,
    <<6754886, 2768649, -49>>,
    <<108371206, 21739733, -53>>,
    <<108665030, 31662883, -53>>,
    <<54479825, 42203471, -52>>,
    <<109255070, 56485221, -53>>,
    <<109551291, 26130619, -53>>,
    <<109848315, 4861235, -53>>,
    <<13768268, 573787, -50>>,
    <<110444780, 37627229, -53>>,
    <<55372113, 24784937, -52>>,
    <<13880560, 40244843, -50>>,
    <<111345556, 62991961, -53>>,
    <<111647445, 24772031, -53>>,
    <<55975076, 10139485, -52>>,
    <<56126839, 65665469, -52>>,
    <<28139507, 42928605, -51>>,
    <<112863206, 22729645, -53>>,
    <<113169209, 35844863, -53>>,
    <<56738021, 13032243, -52>>,
    <<56891853, 38618281, -52>>,
    <<114092206, 5182971, -53>>,
    <<114401541, 28789169, -53>>,
    <<57355857, 49458333, -52>>,
    <<57511365, 16310933, -52>>,
    <<115334588, 50028103, -53>>,
    <<28911823, 9032313, -51>>,
    <<57980422, 5276453, -52>>,
    <<116275245, 60452639, -53>>,
    <<58295250, 2482409, -52>>,
    <<116906608, 66298375, -53>>,
    <<117223574, 64429577, -53>>,
    <<117541400, 21082941, -53>>,
    <<29465021, 56710311, -51>>,
    <<29544909, 41851211, -51>>,
    <<59250027, 67102781, -52>>,
    <<59410671, 8224145, -52>>,
    <<119143499, 39309643, -53>>,
    <<119466530, 25741619, -53>>,
    <<119790437, 452533, -53>>,
    <<120115221, 55690459, -53>>,
    <<120440887, 15700073, -53>>,
    <<120767435, 40703605, -53>>,
    <<60547434, 45015549, -52>>,
    <<30355797, 47639261, -51>>,
    <<30438100, 42066527, -51>>,
    <<15260313, 23140653, -50>>,
    <<61206753, 443641, -52>>,
    <<61372701, 23417067, -52>>,
    <<123078199, 16491655, -53>>,
    <<123411898, 6481619, -53>>,
    <<15468312, 47788147, -50>>,
    <<124082012, 33513589, -53>>,
    <<124418432, 64696965, -53>>,
    <<124755765, 37389077, -53>>,
    <<3909187, 60296611, -48>>,
    <<15679147, 8618187, -50>>,
    <<125773260, 58432351, -53>>,
    <<126114266, 52002071, -53>>,
    <<126456197, 16097577, -53>>,
    <<63399527, 25917193, -52>>,
    <<63571420, 63283195, -52>>,
    <<63743780, 36943547, -52>>,
    <<127833214, 63392899, -53>>,
    <<2002809, 31405789, -47>>,
    <<64263668, 22169709, -52>>,
    <<64437904, 54420791, -52>>,
    <<129225227, 26109937, -53>>,
    <<8098474, 35752017, -49>>,
    <<129926907, 39934503, -53>>,
    <<65139587, 39526549, -52>>,
    <<130632397, 57391767, -53>>,
    <<32746644, 37182621, -51>>,
    <<2052214, 23968021, -47>>,
    <<16462227, 53545119, -50>>,
    <<33013722, 57094021, -51>>,
    <<132412928, 35929225, -53>>,
    <<16596492, 3396123, -50>>,
    <<33282979, 27571525, -51>>,
    <<133492874, 59732465, -53>>,
    <<133854810, 53093337, -53>>,
    <<0, 1, 0>>,
    <<67290814, 39500991, -52>>,
    <<67473258, 33239861, -52>>,
    <<67656197, 3867265, -52>>,
    <<67839631, 41386081, -52>>,
    <<17005890, 59010803, -50>>,
    <<68207994, 7241605, -52>>,
    <<68392924, 49697969, -52>>,
    <<17144589, 12935517, -50>>,
    <<68764291, 37494665, -52>>,
    <<34475365, 15661935, -51>>,
    <<34568837, 28922907, -51>>,
    <<8665640, 51295097, -49>>,
    <<2172283, 62074943, -47>>,
    <<69701554, 46592899, -52>>,
    <<69890534, 52377881, -52>>,
    <<70080027, 16353551, -52>>,
    <<70270033, 31747205, -52>>,
    <<70460554, 57821175, -52>>,
    <<17662898, 13522811, -50>>,
    <<35421574, 23718097, -51>>,
    <<71035223, 64989637, -52>>,
    <<71227819, 67031835, -52>>,
    <<35710469, 7049631, -51>>,
    <<71614580, 1203025, -52>>,
    <<35904373, 28251483, -51>>,
    <<18000860, 1772659, -50>>,
    <<72198661, 15860907, -52>>,
    <<2262325, 24463727, -47>>,
    <<36295346, 27760791, -51>>,
    <<72787506, 10849873, -52>>,
    <<36492426, 37282273, -51>>,
    <<73182735, 8212859, -52>>,
    <<1146580, 35280623, -46>>,
    <<36790055, 4605685, -51>>,
    <<73779606, 3628335, -52>>,
    <<73979642, 57658229, -52>>,
    <<18545055, 33874567, -50>>,
    <<18595336, 16848693, -50>>,
    <<74583013, 19405931, -52>>,
    <<37392614, 11820245, -51>>,
    <<74987991, 45367335, -52>>,
    <<75191304, 50125085, -52>>,
    <<75395169, 3722829, -52>>,
    <<37799793, 3229291, -51>>,
    <<75804557, 24684569, -52>>,
    <<38005042, 12512843, -51>>,
    <<76216168, 41489105, -52>>,
    <<9552851, 30321735, -49>>,
    <<38315007, 29428229, -51>>,
    <<76837779, 62039615, -52>>,
    <<77046108, 18796149, -52>>,
    <<77255001, 31620317, -52>>,
    <<77464461, 1957673, -52>>,
    <<77674488, 32859009, -52>>,
    <<4867817, 56171447, -48>>,
    <<78096253, 18865889, -52>>,
    <<78307993, 47255315, -52>>,
    <<4907519, 17673625, -48>>,
    <<78733198, 24582959, -52>>,
    <<78946665, 48497419, -52>>,
    <<79160711, 56890761, -52>>,
    <<39687669, 10426283, -51>>,
    <<79590546, 45975659, -52>>,
    <<79806338, 36812565, -52>>,
    <<80022715, 32420605, -52>>,
    <<80239679, 5036081, -52>>,
    <<40228615, 30700825, -51>>,
    <<80675372, 40113919, -52>>,
    <<80894105, 48495149, -52>>,
    <<81113431, 59940849, -52>>,
    <<81333352, 48138299, -52>>,
    <<81553869, 54176203, -52>>,
    <<40887492, 26163877, -51>>,
    <<40998349, 42134579, -51>>,
    <<82219014, 57753839, -52>>,
    <<82441933, 15048695, -52>>,
    <<20666363, 66788157, -50>>,
    <<82889584, 51620069, -52>>,
    <<83114321, 15589747, -52>>,
    <<41669833, 34150929, -51>>,
    <<83565623, 52187509, -52>>,
    <<20948048, 19603463, -50>>,
    <<21004844, 14280713, -50>>,
    <<42123588, 16488213, -51>>,
    <<42237796, 59024197, -51>>,
    <<84704630, 22063255, -52>>,
    <<21233571, 65089141, -50>>,
    <<85164568, 6392109, -52>>,
    <<42697736, 22276377, -51>>,
    <<85627003, 18677847, -52>>,
    <<85859161, 42676791, -52>>,
    <<5380746, 56366029, -48>>,
    <<43162684, 13195113, -51>>,
    <<43279710, 7072239, -51>>,
    <<86794106, 40744919, -52>>,
    <<87029429, 20326951, -52>>,
    <<21816347, 33943621, -50>>,
    <<87501990, 33414413, -52>>,
    <<87739232, 30977023, -52>>,
    <<87977117, 43855015, -52>>,
    <<44107823, 60987639, -51>>,
    <<44227412, 23573281, -51>>,
    <<88694650, 4148975, -52>>,
    <<44467562, 55486401, -51>>,
    <<89176253, 16166183, -52>>,
    <<89418034, 39686671, -52>>,
    <<44830235, 49580137, -51>>,
    <<44951782, 56267757, -51>>,
    <<90147318, 65193167, -52>>,
    <<90391733, 9947133, -52>>,
    <<22659202, 33538547, -50>>,
    <<90882551, 21517353, -52>>,
    <<91128958, 61372931, -52>>,
    <<91376034, 39405239, -52>>,
    <<91623780, 10062739, -52>>,
    <<11484024, 45458473, -49>>,
    <<92121288, 14478193, -52>>,
    <<92371054, 24566793, -52>>,
    <<23155374, 28540349, -50>>,
    <<92872620, 3822981, -52>>,
    <<93124423, 18426365, -52>>,
    <<2918028, 27682329, -47>>,
    <<93630079, 45911991, -52>>,
    <<93883936, 39133733, -52>>,
    <<47069240, 58989051, -51>>,
    <<94393717, 5024115, -52>>,
    <<11831205, 36950695, -49>>,
    <<94906265, 41892813, -52>>
>>

\* the overflow test one binade exponent too high
OverflowsOffByOne(v) == FLess(FromInt(DBL_MAX_EXP + 1), v)

\* x > (double) DBL_MAX_EXP
Overflows(v) == FLess(FromInt(DBL_MAX_EXP), v)

\* x < (double) (DBL_MIN_EXP - 1 - DBL_MANT_DIG)
Underflows(v) == FLess(v, FromInt(DBL_MIN_EXP - 1 - DBL_MANT_DIG))

\* the locals of exp2 before any of them is set
ExIdle == [nm |-> DZero, z |-> DZero, exp_y |-> DZero, n |-> 0, m |-> 0,
           ret |-> DZero, i |-> 0]

\* z = (x * 256.0 - nm) * (LOG2_BY_256 * 0.5)
Residual(x256, nm) == FMul(FSub(x256, nm), FMul(LOG2_BY_256, DHalf))

\* ((TANH_COEFF_5 * z2 + TANH_COEFF_3) * z2 + TANH_COEFF_1) * z
TanhSeries(z, z2) ==
    FMul(FAdd(FMul(FAdd(FMul(TANH_COEFF_5, z2), TANH_COEFF_3), z2), TANH_COEFF_1), z)

\* (1.0 + tanh_z) / (1.0 - tanh_z)
ExpFromTanh(tanh_z) == FDiv(FAdd(DOne, tanh_z), FSub(DOne, tanh_z))

\* n taken by the conversion to int alone, without loki::round
IntegerPartTruncated(nm) == ToInt(FMul(nm, FDiv(DOne, FromInt(256))))

\* int n = (int) loki::round (nm * (1.0 / 256.0))
IntegerPart(nm) == ToInt(Round(FMul(nm, FDiv(DOne, FromInt(256)))))

\* int m = (int) nm - 256 * n
TableOffset(nm, n) == ToInt(nm) - 256 * n

\* exp_table[128 + m]
TableEntry(m) == LET e == exp_table[128 + m + 1] IN Lit(0, e[1], e[2], e[3])

\* what a read of exp_table outside its 257 entries may yield
GarbageDoubles == {DZero, FNeg(DOne), HUGE_VAL}

\* the values the read exp_table[128 + m] may yield
TableRead(m) == IF 128 + m >= 0 /\ 128 + m <= 256 THEN {TableEntry(m)}
                ELSE GarbageDoubles

\* the range checks, then nm and z
Exp2Entry ==
    /\ pc = "exp2"
    /\ IF Overflows(x) THEN res' = HUGE_VAL /\ ex' = ex /\ pc' = "done"
       ELSE IF Underflows(x) THEN res' = DZero /\ ex' = ex /\ pc' = "done"
       ELSE /\ res' = res
            /\ \E x256 \in {FMul(x, FromInt(256))} :
                 \E nm \in {Round(x256)} :
                   ex' = [ex EXCEPT !.nm = nm, !.z = Residual(x256, nm)]
            /\ pc' = "series"
    /\ UNCHANGED <<x, res2, encVars>>

\* z2, tanh_z and exp_y
Exp2Series ==
    /\ pc = "series"
    /\ \E z2 \in {FMul(ex.z, ex.z)} :
         ex' = [ex EXCEPT !.exp_y = ExpFromTanh(TanhSeries(ex.z, z2))]
    /\ pc' = "lookup"
    /\ UNCHANGED <<x, res, res2, encVars>>

\* n, m, ret = exp_table[128 + m] * exp_y, and i = 0
Exp2Lookup ==
    /\ pc = "lookup"
    /\ \E n \in {IntegerPart(ex.nm)} :
         \E m \in {TableOffset(ex.nm, n)} :
           \E e \in TableRead(m) :
             ex' = [ex EXCEPT !.n = n, !.m = m,
                              !.ret = FMul(e, ex.exp_y), !.i = 0]
    /\ pc' = "scale"
    /\ UNCHANGED <<x, res, res2, encVars>>

\* for (int i = 0; i < n; i++) ret *= 2
Exp2Scale ==
    /\ pc = "scale"
    /\ ex.i < ex.n
    /\ ex' = [ex EXCEPT !.ret = FMul(ex.ret, DTwo), !.i = ex.i + 1]
    /\ UNCHANGED <<pc, x, res, res2, encVars>>

\* return ret
Exp2Return ==
    /\ pc = "scale"
    /\ ~(ex.i < ex.n)
    /\ res' = ex.ret
    /\ pc' = "done"
    /\ UNCHANGED <<x, res2, ex, encVars>>

CallRound ==
    /\ pc = "round"
    /\ res' = Round(x)
    /\ pc' = "rounded"
    /\ UNCHANGED <<x, res2, ex, encVars>>

\* round applied to the value it returned
CallRoundAgain ==
    /\ pc = "rounded"
    /\ res2' = Round(res)
    /\ pc' = "done"
    /\ UNCHANGED <<x, res, ex, encVars>>

----------------------------------------------------------------------------
(* The inputs drawn and the specifications                                 *)

\* largest mantissa pattern drawn for the arguments of round
MaxMant == 40
\* largest integer drawn for the argument of exp2
MaxN == 20
\* largest numerator of the eighths drawn for the argument of exp2
MaxEighth == 12

\* the doubles next below and next above a normal magnitude S
Below(S) == SubS(S, {IF S = {Max(S)} THEN Max(S) - DBL_MANT_DIG
                     ELSE Max(S) - (DBL_MANT_DIG - 1)})
Above(S) == AddS(S, {Max(S) - (DBL_MANT_DIG - 1)})

\* exponents the mantissa patterns are placed at
RoundShifts == {-3, -2, -1, 0, 46, 49, 50}
\* leading exponents the low-order patterns are attached to
RoundTops == {0, 1, 50, 51, 52, 53}

RoundMags ==
    {Shift(BitsOf(j, 0), s) : j \in 0..MaxMant, s \in RoundShifts}
    \cup {{E} \cup BitsOf(j, E - (DBL_MANT_DIG - 1)) : j \in 0..MaxMant, E \in RoundTops}
    \cup {Below(BitsOf(2 * k + 1, -1)) : k \in 0..MaxMant}
    \cup {Above(BitsOf(2 * k + 1, -1)) : k \in 0..MaxMant}
    \cup {{DBL_MIN_EXP - DBL_MANT_DIG}, Below({DBL_MANT_DIG - 1}),
          Below({DBL_MAX_EXP})}

RoundInputs == {Dbl(sg, m) : sg \in {0, 1}, m \in RoundMags} \cup {Inf(0), Inf(1)}

Exp2Mags ==
    {BitsOf(n, 0) : n \in 0..MaxN}
    \cup {BitsOf(j, -3) : j \in 0..MaxEighth}
    \cup {BitsOf(512 * k + 1, -9) : k \in 0..2}
    \cup {BitsOf(2 * n + 1, -1) : n \in 0..MaxN}
    \cup {BitsOf(n, -1) : n \in {2 * DBL_MAX_EXP - 1,
                                 2 * DBL_MAX_EXP, 2 * DBL_MAX_EXP + 1,
                                 2 * DBL_MAX_EXP + 2,
                                 2 * (DBL_MANT_DIG + 1 - DBL_MIN_EXP) - 2,
                                 2 * (DBL_MANT_DIG + 1 - DBL_MIN_EXP) - 1,
                                 2 * (DBL_MANT_DIG + 1 - DBL_MIN_EXP),
                                 2 * (DBL_MANT_DIG + 1 - DBL_MIN_EXP) + 1,
                                 2 * (DBL_MANT_DIG + 1 - DBL_MIN_EXP) + 2}}
    \cup {Above(BitsOf(DBL_MAX_EXP, 0)), Above(BitsOf(DBL_MANT_DIG + 1 - DBL_MIN_EXP, 0)),
          Below(BitsOf(DBL_MAX_EXP, 0)), Below({DBL_MAX_EXP}),
          {DBL_MIN_EXP - DBL_MANT_DIG}, Below({-1})}

Exp2Inputs == {Dbl(sg, m) : sg \in {0, 1}, m \in Exp2Mags} \cup {Inf(0), Inf(1)}

InitMath ==
    /\ res = DZero
    /\ res2 = DZero
    /\ ex = ExIdle

InitHex ==
    /\ pc = "decode"
    /\ src \in Inputs
    /\ InitEnc
    /\ x = DZero
    /\ InitMath

NextHex == Decode \/ EncodeEntry \/ EncodeStep \/ EncodeReturn \/ AssignResult

SpecHex == InitHex /\ [][NextHex]_vars

InitRound ==
    /\ pc = "round"
    /\ x \in RoundInputs
    /\ InitMath
    /\ src = <<>>
    /\ InitEnc

NextRound == CallRound \/ CallRoundAgain

SpecRound == InitRound /\ [][NextRound]_vars

InitExp2 ==
    /\ pc = "exp2"
    /\ x \in Exp2Inputs
    /\ InitMath
    /\ src = <<>>
    /\ InitEnc

NextExp2 == Exp2Entry \/ Exp2Series \/ Exp2Lookup \/ Exp2Scale \/ Exp2Return

SpecExp2 == InitExp2 /\ [][NextExp2]_vars

----------------------------------------------------------------------------
(* The claims                                                              *)

\* ceil(8 * n / 5): the symbols n bytes encode to
Symbols(n) == (8 * n + 4) \div 5

\* bit p of the bytes b read as one big-endian stream, zero past its end
StreamBit(b, p) ==
    IF p < 8 * Len(b) THEN (b[(p \div 8) + 1] \div 2^(7 - (p % 8))) % 2 ELSE 0

\* the 5-bit value at bit positions 5k .. 5k+4 of the stream
Group(b, k) ==
    16 * StreamBit(b, 5 * k) + 8 * StreamBit(b, 5 * k + 1)
    + 4 * StreamBit(b, 5 * k + 2) + 2 * StreamBit(b, 5 * k + 3)
    + StreamBit(b, 5 * k + 4)

\* the value of each character drawn: '0'-'9' 0-9, 'A'-'F' and 'a'-'f' 10-15,
\* anything else 0
HexValue == (47 :> 0) @@ (48 :> 0) @@ (57 :> 9) @@ (58 :> 0) @@ (65 :> 10)
            @@ (70 :> 15) @@ (71 :> 0) @@ (97 :> 10) @@ (102 :> 15) @@ (103 :> 0)

\* the character with a non-hex character replaced by '0' and a hex letter
\* by the same letter in the other case
Canon == (47 :> 48) @@ (48 :> 48) @@ (57 :> 57) @@ (58 :> 48) @@ (65 :> 97)
         @@ (70 :> 102) @@ (71 :> 48) @@ (97 :> 65) @@ (102 :> 70) @@ (103 :> 48)

\* C1: at most 64 input characters that need more than 64 symbols make
\* base32z_encode return null and hex64_to_base32z return the empty string.
C1_CapacityFailure ==
    (pc = "done" /\ Len(src) <= MaxSrcLen /\ Symbols(Len(bin)) > StackSize)
        => (dest = "null" /\ result = <<>>)

\* C2: the string returned for N input characters has length ceil(8*N/5).
C2_OutputLength ==
    pc = "done" => Len(result) = Symbols(Len(bin))

\* C3: the empty string encodes to the empty string, no symbol being
\* emitted and no input element read.
C3_EmptyInput ==
    (src = <<>> /\ pc \in {"returned", "done", "crashed"})
        => (pc # "crashed" /\ ret = 0 /\ result = <<>>)

\* C4: symbol k of the output is zbase32_alpha[v], v the 5-bit value at bit
\* positions 5k..5k+4 of the decoded bytes as a big-endian stream padded
\* with zero bits.
C4_SymbolsAreGroups ==
    pc = "done" =>
        \A k \in 1..Len(result) : result[k] = zbase32_alpha[Group(bin, k - 1) + 1]

\* C5: every character decodes on its own to its hex value, anything that
\* is no hex digit to 0, so that the bytes encoded (all the encoder reads)
\* are those of the input with its non-hex characters replaced by '0' and
\* its letters in the other case; the string returned is the encoding of
\* those bytes wherever the encoder stays within the input and the buffer.
C5_LenientDecode ==
    pc # "decode" =>
        /\ Len(bin) = Len(src)
        /\ \A i \in 1..Len(src) : bin[i] = HexValue[src[i]]
        /\ bin = Transform([i \in 1..Len(src) |-> Canon[src[i]]])
        /\ (pc = "done" /\ Len(src) > 0 /\ Symbols(Len(src)) < StackSize) =>
               result = [k \in 1..Symbols(Len(src)) |->
                            zbase32_alpha[Group([i \in 1..Len(src) |->
                                HexValue[Canon[src[i]]]], k - 1) + 1]]

C5_Witness ==
    /\ pc = "done"
    /\ Len(src) = 3
    /\ src[1] = 103
    /\ src[2] = 70
    /\ result = <<"y", "y", "8", "o", "y">>

\* the integer a double holds, for a double that is a small integer
IsInteger(d) == ~d.inf /\ \A b \in d.m : b >= 0

\* C6: exp2(n) = 2^n exactly for every integer n in -20..20.
C6_IntegerPowers ==
    (pc = "done" /\ IsInteger(x) /\ (x.m = {} \/ Max(x.m \cup {0}) <= 4)
     /\ ToInt(x) \in -20..20)
        => res = Dbl(0, {ToInt(x)})

\* x > 1024 and x < -1075
AboveMaxExp(d) == d.sg = 0 /\ (d.inf \/ LessS({10}, d.m))
BelowMinExp(d) == d.sg = 1 /\ (d.inf \/ LessS({10, 5, 4, 1, 0}, d.m))

\* C7: for x > 1024 exp2 returns +infinity and for x < -1075 it returns 0.0,
\* in both cases at once, none of the locals of the decomposition being set.
C7_Saturation ==
    /\ AboveMaxExp(x) =>
           (pc \in {"exp2", "done"} /\ ex = ExIdle /\ (pc = "done" => res = Inf(0)))
    /\ BelowMinExp(x) =>
           (pc \in {"exp2", "done"} /\ ex = ExIdle /\ (pc = "done" => res = Dbl(0, {})))

C7_Witness ==
    /\ pc = "done"
    /\ x = Dbl(0, {10, -1})
    /\ res = Inf(0)

\* floor and ceiling of a finite double of magnitude below 2^11
Floor(d) == IF d.sg = 1 /\ ~IsInteger(d) THEN ToInt(d) - 1 ELSE ToInt(d)
Ceiling(d) == IF d.sg = 0 /\ ~IsInteger(d) THEN ToInt(d) + 1 ELSE ToInt(d)

\* the unit in the last place of 2^e
UlpOfPow(e) == IF e - (DBL_MANT_DIG - 1) > DBL_MIN_EXP - DBL_MANT_DIG
               THEN e - (DBL_MANT_DIG - 1) ELSE DBL_MIN_EXP - DBL_MANT_DIG

\* C8: exp2(x) is within 1 ULP of 2^x on the range that does not saturate.
\* 2^x lies between 2^floor(x) and 2^ceil(x), both doubles, and is one of
\* them when x is an integer: within 1 ULP of 2^x, the result is no less
\* than 2^floor(x) less its ULP and no more than 2^ceil(x) plus its ULP.
C8_WithinOneUlp ==
    (pc = "done" /\ ~x.inf /\ ~AboveMaxExp(x) /\ ~BelowMinExp(x)
     /\ Floor(x) >= DBL_MIN_EXP - DBL_MANT_DIG /\ Ceiling(x) < DBL_MAX_EXP)
        => /\ res.sg = 0 /\ ~res.inf
           /\ ~LessS(AddS(res.m, {UlpOfPow(Floor(x))}), {Floor(x)})
           /\ ~LessS(AddS({Ceiling(x)}, {UlpOfPow(Ceiling(x))}), res.m)

\* the integer part of a magnitude, and the integer after an integer
IntPart(M) == {b \in M : b >= 0}
IntSucc(S) == LET z == Min({k \in 0..DBL_MANT_DIG : k \notin S})
              IN {b \in S : b > z} \cup {z}

\* C9: for |x| < 2^52 round breaks ties away from zero, round(k + 0.5) =
\* k + 1 and round(-(k + 0.5)) = -(k + 1), and takes every other
\* non-integral x to the integer nearest to it.
C9_TiesAwayFromZero ==
    (pc # "round" /\ ~x.inf /\ LessS(x.m, {DBL_MANT_DIG - 1}) /\ ~IsInteger(x))
        => /\ res.sg = x.sg /\ ~res.inf
           /\ (\A b \in x.m : b >= -1) => res.m = IntSucc(IntPart(x.m))
           /\ (\E b \in x.m : b < -1) =>
                  res.m = IF -1 \in x.m THEN IntSucc(IntPart(x.m)) ELSE IntPart(x.m)

C9_Witness ==
    /\ pc = "rounded"
    /\ x = Dbl(1, {1, -1})
    /\ res = Dbl(1, {1, 0})

\* C10: round(x) = x for every integral x, zero of either sign and every x
\* of magnitude at least 2^52 included, and round(round(x)) = round(x).
C10_IntegralFixed ==
    /\ (pc # "round" /\ (x.inf \/ IsInteger(x))) => res = x
    /\ pc = "done" => res2 = res

C10_Witness ==
    /\ pc = "done"
    /\ x = Dbl(1, {52, 0})
    /\ res = x
    /\ res2 = x

\* C11: on the range that does not saturate, m = nm - 256 * n lies in
\* -128..128 and nm = 256 * n + m with nm and n integers, so that the index
\* 128 + m lies in 0..256, within the 257 entries of exp_table; the ties
\* nm = 256 * k + 128 and nm = 256 * k - 128 included.
C11_TableIndexInRange ==
    (pc \in {"scale", "done"} /\ ~AboveMaxExp(x) /\ ~BelowMinExp(x))
        => /\ IsInteger(ex.nm)
           /\ ex.m \in -128..128
           /\ ToInt(ex.nm) = 256 * ex.n + ex.m
           /\ 128 + ex.m \in 0..256
           /\ 128 + ex.m + 1 \in DOMAIN exp_table

C11_Witness ==
    /\ pc = "done"
    /\ x = Dbl(1, {-1})
    /\ ex.nm = Dbl(1, {7})
    /\ ex.n = -1
    /\ ex.m = 128

\* the locals and the buffer the body of the loop works on
loopVars == <<ret, pos, bits, tmp, stack>>

\* a step that runs the body of the loop once: it starts in the loop and
\* changes a local (the step that leaves the loop changes none)
Iteration == pc = "loop" /\ loopVars' # loopVars

\* while the loop runs, ret symbols are written, at the first ret indices
LoopProgress ==
    pc = "loop" =>
        /\ ret \in 0..StackSize
        /\ Len(stack) = StackSize
        /\ \A i \in 1..StackSize : (stack[i] # NUL) <=> (i <= ret)

\* C12: the loop of base32z_encode runs at most 64 times: every iteration
\* writes one symbol at index ret < 64, an index not written before, leaves
\* the rest of the buffer alone and increments ret, so the buffer fills from
\* the left and nothing is written at or past index 64; the count of
\* unconsumed bits is within 0..12 when a symbol is extracted; a step that
\* is not an iteration leaves the loop.
C12_LoopWritesInBounds ==
    [][/\ LoopProgress'
       /\ pc # "loop" /\ pc' = "loop" => ret' = 0
       /\ pc = "loop" /\ ~Iteration => pc' = "returned" /\ ~LoopCond
       /\ Iteration =>
            /\ ret < StackSize
            /\ ret' = ret + 1
            /\ stack[ret + 1] = NUL
            /\ \E j \in 1..32 : stack'[ret + 1] = zbase32_alpha[j]
            /\ \A i \in 1..StackSize : i # ret + 1 => stack'[i] = stack[i]
            /\ bits' >= 0
            /\ bits' + 5 <= 12
            /\ pc' = "loop"]_vars

C12_Witness ==
    /\ pc = "returned"
    /\ Len(bin) = MaxSrcLen
    /\ ret = StackSize
    /\ \A i \in 1..StackSize : stack[i] # NUL

\* C13: whenever base32z_encode returns a pointer that is not null, fewer
\* than 64 symbols were written, buf still holds a terminating zero byte and
\* the string hex64_to_base32z returns is the ret symbols written, read
\* without leaving buf, for every input of 0..64 characters.
C13_ReturnedStringTerminated ==
    (pc \in {"returned", "done", "crashed"} /\ dest = "buf"
            /\ Len(src) <= MaxSrcLen)
        => /\ ret < StackSize
           /\ \E i \in 1..StackSize : stack[i] = NUL
           /\ pc # "crashed"
           /\ pc = "done" => (Len(result) = ret /\ result = SubSeq(stack, 1, ret))

====
